---- MODULE Spec2Model ----
(***************************************************************************)
(* A model of live_status.py: the ping loop, the heartbeat loop, the event *)
(* logger they share, the two state stores, and the HTTP handler with the  *)
(* page renderer and html_escape.                                          *)
(***************************************************************************)
EXTENDS Integers, Sequences, FiniteSets, TLC

\* ---------------------------------------------------------------- bounds
\* Cycles explored of the ping loop when it runs alone.
MaxPingCycles == 3
\* Cycles explored of the heartbeat loop when it runs alone.
MaxHbCycles == 4
\* Cycles explored of a loop that runs beside another thread or with a
\* faulty event log.
MaxJointCycles == 1
\* Requests served by the request thread.
MaxRequests == 1
\* I/O faults injected into the event logger (open, write, fsync, stderr)
\* in the runs that inject faults.
MaxLogFaults == 2
\* Longest input string given to html_escape.
MaxLen == 3

\* ------------------------------------------------------------- constants
None == "None"
PING_TARGETS == <<"10.50.20.1", "1.1.1.1">>
Targets == {PING_TARGETS[i] : i \in 1..Len(PING_TARGETS)}
\* The write of one line reaches the file in this many pieces.
NFrag == 2
\* len(data) of one heartbeat record, abstracted.
RecordLen == 2

VARIABLES
  budget,      \* what this run explores: cycles, requests, injected faults
  pc,          \* position of each thread: ping, hb, req
  latest,      \* PING_STATE.latest
  pingLock,    \* PING_STATE.lock: "free" or its holder
  target,      \* ping_worker: index of the current target
  res,         \* ping_worker: (ok, latency, err) of the current probe
  prev_ok,     \* ping_worker: prev_ok (<<>> is None, <<b>> the boolean b)
  cycles,      \* cycles each loop has started
  obs,         \* history: the ok of every probe, per target
  evLock,      \* EVENTS.lock
  evFile,      \* the events file: the pieces written, in order
  stderr,      \* sys.stderr: the lines written by the fallback
  logLine,     \* log(): the formatted line of each caller
  logPos,      \* log(): pieces of the line already written
  ret,         \* where each caller continues after log() returns
  logCalls,    \* history: every call of EVENTS.log, in call order
  faults,      \* I/O faults injected so far
  EVENTS_FSYNC,
  hb,          \* HEARTBEAT: last_write_ts, last_error, bytes_written
  hbLock,      \* HEARTBEAT.lock
  had_error,   \* heartbeat_worker: had_error
  hbExc,       \* heartbeat_worker: str(e) of the exception caught, as "error"
  hbObs,       \* history: the outcome of every heartbeat cycle
  hbFile,      \* records in the heartbeat file
  hbDir,       \* whether the heartbeat file's directory exists
  path,        \* Handler: self.path (<<>> when no request is being served)
  pings,       \* render_index: pings
  hbSnap,      \* render_index: hb
  disk,        \* render_index: disk, with the outcome of the two queries
  resp,        \* the response sent
  served,      \* requests answered
  escIn,       \* a string of characters given to html_escape and the renderer
  escOut       \* html_escape's result for it, once applied

pingVars == <<latest, pingLock, target, res, prev_ok, obs>>
logVars == <<evLock, evFile, stderr, logLine, logPos, ret, logCalls, faults>>
hbVars == <<hb, hbLock, had_error, hbExc, hbObs, hbFile, hbDir>>
reqVars == <<path, pings, hbSnap, disk, resp, served>>
escVars == <<escIn, escOut>>
vars == <<budget, pc, cycles, EVENTS_FSYNC, pingVars, logVars, hbVars, reqVars, escVars>>

Threads == {"ping", "hb", "req"}
Loops == {"ping", "hb"}

\* The runs explored: each loop alone for several cycles (the heartbeat loop
\* with a directory that may be removed under it), the two loops together, the
\* ping loop with a request thread, the ping loop with a faulty event log, and
\* the heartbeat loop with a request thread and a faulty event log.
Scenarios ==
  { [ping |-> MaxPingCycles, hb |-> 0, req |-> 0, faults |-> 0, rmdir |-> FALSE],
    [ping |-> 0, hb |-> MaxHbCycles, req |-> 0, faults |-> 0, rmdir |-> TRUE],
    [ping |-> MaxJointCycles, hb |-> MaxJointCycles, req |-> 0, faults |-> 0,
     rmdir |-> FALSE],
    [ping |-> MaxJointCycles, hb |-> 0, req |-> MaxRequests, faults |-> 0,
     rmdir |-> FALSE],
    [ping |-> MaxJointCycles, hb |-> 0, req |-> 0, faults |-> MaxLogFaults,
     rmdir |-> FALSE],
    [ping |-> 0, hb |-> MaxJointCycles, req |-> MaxRequests,
     faults |-> MaxLogFaults, rmdir |-> FALSE] }

\* ------------------------------------------------------------ PingState
InitialRecord ==
  [ok |-> FALSE, latency_ms |-> None, ts |-> None, err |-> None,
   misses |-> 0, checks |-> 0]

\* update with the counters of a fresh record instead of the previous one's.
update_fresh_counters(l, t, ok, latency_ms, err, now) ==
  [l EXCEPT ![t] =
     [ok |-> ok, latency_ms |-> latency_ms, ts |-> now, err |-> err,
      misses |-> 0, checks |-> 0]]

\* PingState.update: a new record that keeps the counters of the old one.
update(l, t, ok, latency_ms, err, now) ==
  [l EXCEPT ![t] =
     [ok |-> ok, latency_ms |-> latency_ms, ts |-> now, err |-> err,
      misses |-> l[t].misses, checks |-> l[t].checks]]

\* PingState.increment: checks + 1, and misses + 1 when the probe failed.
increment(l, t, ok) ==
  [l EXCEPT ![t] =
     [@ EXCEPT !.checks = @ + 1,
               !.misses = IF ok THEN @ ELSE @ + 1]]

\* v without the copy: the dict handed out is the store's own record.
copy_shared(v) == [own |-> FALSE, rec |-> v]

\* v.copy(): a dict of its own (own) with the fields v has now.
copy(v) == [own |-> TRUE, rec |-> v]

\* What a reader finds in a dict handed out for target t: the fields copied,
\* or the current fields of the store's record when the dict is that record.
deref(l, e, t) == IF e.own THEN e.rec ELSE l[t]

\* PingState.snapshot: a copy of every record.
snapshot(l) == [t \in DOMAIN l |-> copy(l[t])]

\* render_index holds no snapshot of the ping store.
NoPings == [t \in {} |-> copy(InitialRecord)]

\* -------------------------------------------------------- try_ping_once
\* What one run of a ping variant can end in.
VariantOutcomes == {"rc0", "nonzero", "FileNotFoundError", "TimeoutExpired"}
\* The two command lines tried.
NumVariants == 2

\* The text of an error is abstracted to "error"; last_error or "unknown" gives
\* "unknown" when no variant left a text.
\* try_ping_once reporting the elapsed time of a failed attempt as well.
variants_loop_elapsed_on_failure(outs, i, last_error) ==
  IF \E k \in 1..Len(outs) : outs[k] = "rc0" /\ \A j \in 1..(k - 1) : outs[j] # "FileNotFoundError"
  THEN [ok |-> TRUE, latency_ms |-> "ms", err |-> None]
  ELSE [ok |-> FALSE, latency_ms |-> "ms", err |-> "error"]

RECURSIVE variants_loop(_, _, _)
variants_loop(outs, i, last_error) ==
  IF i > Len(outs)
  THEN [ok |-> FALSE, latency_ms |-> None,
        err |-> IF last_error = None THEN "unknown" ELSE last_error]
  ELSE CASE outs[i] = "rc0" ->
              [ok |-> TRUE, latency_ms |-> "ms", err |-> None]
         [] outs[i] = "nonzero" -> variants_loop(outs, i + 1, "error")
         [] outs[i] = "FileNotFoundError" ->
              variants_loop(outs, Len(outs) + 1, "error")
         [] outs[i] = "TimeoutExpired" -> variants_loop(outs, i + 1, "error")

try_ping_once(outs) == variants_loop(outs, 1, None)

\* ok, latency, err before the first probe of a cycle step.
NoResult == [ok |-> FALSE, latency_ms |-> None, err |-> None]

\* ---------------------------------------------------------- EventLogger
\* No line: the thread is not in log().
NoLine == [id |-> 0, event |-> None, who |-> None]

\* EVENTS.log(event, ...) up to the lock: the line is formatted.
LogCall(th, event, who, cont) ==
  /\ logLine' = [logLine EXCEPT ![th] =
                   [id |-> Len(logCalls) + 1, event |-> event, who |-> who]]
  /\ logCalls' = Append(logCalls, [by |-> th, event |-> event, who |-> who])
  /\ ret' = [ret EXCEPT ![th] = cont]
  /\ pc' = [pc EXCEPT ![th] = "log_lock"]
  /\ UNCHANGED <<evLock, evFile, stderr, logPos, faults>>

\* log() without the lock: the with block is entered whoever holds it.
LogAcquire_no_lock(th) ==
  /\ pc[th] = "log_lock"
  /\ evLock' = th
  /\ pc' = [pc EXCEPT ![th] = "log_open"]
  /\ UNCHANGED <<evFile, stderr, logLine, logPos, ret, logCalls, faults>>

\* with self.lock: entered.
LogAcquire(th) ==
  /\ pc[th] = "log_lock"
  /\ evLock = "free"
  /\ evLock' = th
  /\ pc' = [pc EXCEPT ![th] = "log_open"]
  /\ UNCHANGED <<evFile, stderr, logLine, logPos, ret, logCalls, faults>>

\* log() without the try: a failed open leaves the with block (the lock is
\* released) and reaches the caller.
LogOpen_raises(th) ==
  /\ pc[th] = "log_open"
  /\ \/ /\ pc' = [pc EXCEPT ![th] = "log_write"]
        /\ logPos' = [logPos EXCEPT ![th] = 0]
        /\ UNCHANGED <<faults, evLock>>
     \/ /\ faults < budget.faults
        /\ faults' = faults + 1
        /\ evLock' = "free"
        /\ pc' = [pc EXCEPT ![th] = "raised"]
        /\ UNCHANGED logPos
  /\ UNCHANGED <<evFile, stderr, logLine, ret, logCalls>>

\* open(self.path, "ab", buffering=0): succeeds or raises.
LogOpen(th) ==
  /\ pc[th] = "log_open"
  /\ \/ /\ pc' = [pc EXCEPT ![th] = "log_write"]
        /\ logPos' = [logPos EXCEPT ![th] = 0]
        /\ UNCHANGED faults
     \/ /\ faults < budget.faults
        /\ faults' = faults + 1
        /\ pc' = [pc EXCEPT ![th] = "log_fallback"]
        /\ UNCHANGED logPos
  /\ UNCHANGED <<evLock, evFile, stderr, logLine, ret, logCalls>>

\* f.write(line): raises before anything is written, or the line reaches the
\* file piece by piece; then os.fsync when self.fsync.
LogWrite(th) ==
  /\ pc[th] = "log_write"
  /\ \/ /\ evFile' = Append(evFile, [id |-> logLine[th].id, part |-> logPos[th] + 1])
        /\ logPos' = [logPos EXCEPT ![th] = @ + 1]
        /\ pc' = [pc EXCEPT ![th] =
                    IF logPos[th] + 1 < NFrag THEN "log_write"
                    ELSE IF EVENTS_FSYNC THEN "log_fsync" ELSE "log_release"]
        /\ UNCHANGED faults
     \/ /\ logPos[th] = 0
        /\ faults < budget.faults
        /\ faults' = faults + 1
        /\ pc' = [pc EXCEPT ![th] = "log_fallback"]
        /\ UNCHANGED <<evFile, logPos>>
  /\ UNCHANGED <<evLock, stderr, logLine, ret, logCalls>>

\* os.fsync(f.fileno()): succeeds or raises.
LogFsync(th) ==
  /\ pc[th] = "log_fsync"
  /\ \/ /\ pc' = [pc EXCEPT ![th] = "log_release"]
        /\ UNCHANGED faults
     \/ /\ faults < budget.faults
        /\ faults' = faults + 1
        /\ pc' = [pc EXCEPT ![th] = "log_fallback"]
  /\ UNCHANGED <<evLock, evFile, stderr, logLine, logPos, ret, logCalls>>

\* The except branch without the write to stderr: the line is dropped.
LogFallback_silent(th) ==
  /\ pc[th] = "log_fallback"
  /\ pc' = [pc EXCEPT ![th] = "log_release"]
  /\ UNCHANGED <<evLock, evFile, stderr, logLine, logPos, ret, logCalls, faults>>

\* except Exception: sys.stderr.write(line), whose own failure is swallowed.
LogFallback(th) ==
  /\ pc[th] = "log_fallback"
  /\ \/ /\ stderr' = Append(stderr, logLine[th].id)
        /\ UNCHANGED faults
     \/ /\ faults < budget.faults
        /\ faults' = faults + 1
        /\ UNCHANGED stderr
  /\ pc' = [pc EXCEPT ![th] = "log_release"]
  /\ UNCHANGED <<evLock, evFile, logLine, logPos, ret, logCalls>>

\* log() returning with the lock still held.
LogRelease_keeps_lock(th) ==
  /\ pc[th] = "log_release"
  /\ logLine' = [logLine EXCEPT ![th] = NoLine]
  /\ logPos' = [logPos EXCEPT ![th] = 0]
  /\ pc' = [pc EXCEPT ![th] = ret[th]]
  /\ ret' = [ret EXCEPT ![th] = None]
  /\ UNCHANGED <<evLock, evFile, stderr, logCalls, faults>>

\* The with block is left: the lock is released and log() returns.
LogRelease(th) ==
  /\ pc[th] = "log_release"
  /\ evLock' = "free"
  /\ logLine' = [logLine EXCEPT ![th] = NoLine]
  /\ logPos' = [logPos EXCEPT ![th] = 0]
  /\ pc' = [pc EXCEPT ![th] = ret[th]]
  /\ ret' = [ret EXCEPT ![th] = None]
  /\ UNCHANGED <<evFile, stderr, logCalls, faults>>

log(th) ==
  /\ \/ LogAcquire(th)
     \/ LogOpen(th)
     \/ LogWrite(th)
     \/ LogFsync(th)
     \/ LogFallback(th)
     \/ LogRelease(th)
  /\ UNCHANGED <<budget, cycles, EVENTS_FSYNC, pingVars, hbVars, reqVars, escVars>>

\* ---------------------------------------------------------- ping_worker
\* while True: cycle_start = time.monotonic()
PingCycle ==
  /\ pc["ping"] = "cycle"
  /\ cycles["ping"] < budget.ping
  /\ cycles' = [cycles EXCEPT !["ping"] = @ + 1]
  /\ target' = 1
  /\ pc' = [pc EXCEPT !["ping"] = "probe"]
  /\ UNCHANGED <<latest, pingLock, res, prev_ok, obs>>
  /\ UNCHANGED logVars

\* ok, latency, err = try_ping_once(target)
PingProbe ==
  /\ pc["ping"] = "probe"
  /\ \E outs \in [1..NumVariants -> VariantOutcomes] :
       res' = try_ping_once(outs)
  /\ obs' = [obs EXCEPT ![PING_TARGETS[target]] = Append(@, res'.ok)]
  /\ pc' = [pc EXCEPT !["ping"] = "inc"]
  /\ UNCHANGED <<latest, pingLock, target, prev_ok, cycles>>
  /\ UNCHANGED logVars

\* The two store calls in the other order: update, then increment.
PingIncrement_after_update ==
  /\ \/ /\ pc["ping"] = "inc"
        /\ pingLock = "free"
        /\ pingLock' = "ping"
        /\ pc' = [pc EXCEPT !["ping"] = "inc_body"]
        /\ UNCHANGED latest
     \/ /\ pc["ping"] = "inc_body"
        /\ latest' = update(latest, PING_TARGETS[target], res.ok,
                            res.latency_ms, res.err, ToString(cycles["ping"]))
        /\ pingLock' = "free"
        /\ pc' = [pc EXCEPT !["ping"] = "upd"]
     \/ /\ pc["ping"] = "upd"
        /\ pingLock = "free"
        /\ pingLock' = "ping"
        /\ pc' = [pc EXCEPT !["ping"] = "upd_body"]
        /\ UNCHANGED latest
     \/ /\ pc["ping"] = "upd_body"
        /\ latest' = increment(latest, PING_TARGETS[target], res.ok)
        /\ pingLock' = "free"
        /\ pc' = [pc EXCEPT !["ping"] = "compare"]
  /\ UNCHANGED <<target, res, prev_ok, obs, cycles>>
  /\ UNCHANGED logVars

\* PING_STATE.increment(target, ok)
PingIncrement ==
  /\ \/ /\ pc["ping"] = "inc"
        /\ pingLock = "free"
        /\ pingLock' = "ping"
        /\ pc' = [pc EXCEPT !["ping"] = "inc_body"]
        /\ UNCHANGED latest
     \/ /\ pc["ping"] = "inc_body"
        /\ latest' = increment(latest, PING_TARGETS[target], res.ok)
        /\ pingLock' = "free"
        /\ pc' = [pc EXCEPT !["ping"] = "upd"]
  /\ UNCHANGED <<target, res, prev_ok, obs, cycles>>
  /\ UNCHANGED logVars

\* update returning without leaving its with block: the lock stays held.
PingUpdate_keeps_lock ==
  /\ \/ /\ pc["ping"] = "upd"
        /\ pingLock = "free"
        /\ pingLock' = "ping"
        /\ pc' = [pc EXCEPT !["ping"] = "upd_body"]
        /\ UNCHANGED latest
     \/ /\ pc["ping"] = "upd_body"
        /\ latest' = update(latest, PING_TARGETS[target], res.ok,
                            res.latency_ms, res.err, ToString(cycles["ping"]))
        /\ pingLock' = "ping"
        /\ pc' = [pc EXCEPT !["ping"] = "compare"]
  /\ UNCHANGED <<target, res, prev_ok, obs, cycles>>
  /\ UNCHANGED logVars

\* PING_STATE.update(target, ok, latency, err)
PingUpdate ==
  /\ \/ /\ pc["ping"] = "upd"
        /\ pingLock = "free"
        /\ pingLock' = "ping"
        /\ pc' = [pc EXCEPT !["ping"] = "upd_body"]
        /\ UNCHANGED latest
     \/ /\ pc["ping"] = "upd_body"
        /\ latest' = update(latest, PING_TARGETS[target], res.ok,
                            res.latency_ms, res.err, ToString(cycles["ping"]))
        /\ pingLock' = "free"
        /\ pc' = [pc EXCEPT !["ping"] = "compare"]
  /\ UNCHANGED <<target, res, prev_ok, obs, cycles>>
  /\ UNCHANGED logVars

\* The event ping_worker logs for an observation, or None.
\* PingEvent without the comparison for failures: every failed probe is logged.
PingEvent_every_failure(prev, ok) ==
  IF ~ok THEN "PING_DOWN"
  ELSE IF prev = <<>> \/ prev[1] # ok THEN "PING_UP" ELSE None

\* prev is <<>> for Python's None and <<b>> for the boolean b.
PingEvent(prev, ok) ==
  IF prev = <<>>
  THEN (IF ok THEN "PING_UP" ELSE "PING_DOWN")
  ELSE IF prev[1] # ok
       THEN (IF ok THEN "PING_UP" ELSE "PING_DOWN")
       ELSE None

\* if prev_ok[target] is None: ... elif prev_ok[target] is not ok: ...
PingCompare ==
  /\ pc["ping"] = "compare"
  /\ LET t == PING_TARGETS[target]
         ev == PingEvent(prev_ok[t], res.ok)
     IN IF ev # None
        THEN LogCall("ping", ev, t, "set_prev")
        ELSE /\ pc' = [pc EXCEPT !["ping"] = "set_prev"]
             /\ UNCHANGED logVars
  /\ UNCHANGED <<latest, pingLock, target, res, prev_ok, obs, cycles>>

\* prev_ok[target] = ok, and the next target or the end of the cycle.
PingSetPrev ==
  /\ pc["ping"] = "set_prev"
  /\ prev_ok' = [prev_ok EXCEPT ![PING_TARGETS[target]] = <<res.ok>>]
  /\ res' = NoResult
  /\ IF target < Len(PING_TARGETS)
     THEN /\ target' = target + 1
          /\ pc' = [pc EXCEPT !["ping"] = "probe"]
     ELSE /\ target' = target
          /\ pc' = [pc EXCEPT !["ping"] = "sleep"]
  /\ UNCHANGED <<latest, pingLock, obs, cycles>>
  /\ UNCHANGED logVars

\* time.sleep(sleep_for)
PingSleep ==
  /\ pc["ping"] = "sleep"
  /\ pc' = [pc EXCEPT !["ping"] = "cycle"]
  /\ UNCHANGED <<latest, pingLock, target, res, prev_ok, obs, cycles>>
  /\ UNCHANGED logVars

ping_worker ==
  /\ \/ PingCycle
     \/ PingProbe
     \/ PingIncrement
     \/ PingUpdate
     \/ PingCompare
     \/ PingSetPrev
     \/ PingSleep
  /\ UNCHANGED <<budget, EVENTS_FSYNC, hbVars, reqVars, escVars>>


\* ------------------------------------------------------- HeartbeatState
\* HeartbeatState.record_success
record_success(h, nbytes, now) ==
  [h EXCEPT !.last_write_ts = now, !.last_error = None, !.bytes_written = nbytes]

\* record_error that also forgets the last successful write.
record_error_forgets_write(h, err) ==
  [h EXCEPT !.last_error = err, !.last_write_ts = None, !.bytes_written = 0]

\* HeartbeatState.record_error
record_error(h, err) == [h EXCEPT !.last_error = err]

\* HeartbeatState.snapshot
hb_snapshot(h) ==
  [path |-> "HEARTBEAT_PATH", last_write_ts |-> h.last_write_ts,
   last_error |-> h.last_error, bytes_written |-> h.bytes_written]

\* render_index holds no snapshot of the heartbeat store.
NoHb == [path |-> None, last_write_ts |-> None, last_error |-> None,
         bytes_written |-> 0]

\* ----------------------------------------------------- heartbeat_worker
\* What one cycle's open/write/flush/fsync can end in.
HbOutcomes == {"ok", "open failed", "write failed", "fsync failed"}

\* Before the loop: os.makedirs(hb_dir) when the directory is missing.
HbStartup ==
  /\ \/ /\ pc["hb"] = "start"
        /\ budget.hb > 0
        /\ \/ /\ hbDir
              /\ pc' = [pc EXCEPT !["hb"] = "hb_cycle"]
              /\ UNCHANGED <<hbDir, hbExc>>
           \/ /\ ~hbDir
              /\ hbDir' = TRUE
              /\ pc' = [pc EXCEPT !["hb"] = "hb_cycle"]
              /\ UNCHANGED hbExc
           \/ /\ ~hbDir
              /\ hbExc' = "error"
              /\ pc' = [pc EXCEPT !["hb"] = "st_lock"]
              /\ UNCHANGED hbDir
        /\ UNCHANGED <<hb, hbLock>>
     \/ /\ pc["hb"] = "st_lock"
        /\ hbLock = "free"
        /\ hbLock' = "hb"
        /\ pc' = [pc EXCEPT !["hb"] = "st_body"]
        /\ UNCHANGED <<hb, hbDir, hbExc>>
     \/ /\ pc["hb"] = "st_body"
        /\ hb' = record_error(hb, hbExc)
        /\ hbLock' = "free"
        /\ hbExc' = None
        /\ pc' = [pc EXCEPT !["hb"] = "hb_cycle"]
        /\ UNCHANGED hbDir
  /\ UNCHANGED <<had_error, hbObs, hbFile, cycles>>
  /\ UNCHANGED logVars

\* try: open the file, f.write(data), f.flush(), os.fsync(f.fileno())
HbWrite ==
  /\ pc["hb"] = "hb_cycle"
  /\ cycles["hb"] < budget.hb
  /\ cycles' = [cycles EXCEPT !["hb"] = @ + 1]
  /\ \E o \in (IF hbDir THEN HbOutcomes ELSE {"open failed"}) :
       /\ hbExc' = (IF o = "ok" THEN None ELSE "error")
       /\ hbFile' = (IF o \in {"ok", "fsync failed"} THEN hbFile + 1 ELSE hbFile)
       /\ hbObs' = Append(hbObs, o = "ok")
       /\ pc' = [pc EXCEPT !["hb"] = IF o = "ok" THEN "hs_lock" ELSE "he_lock"]
  /\ UNCHANGED <<hb, hbLock, had_error, hbDir>>
  /\ UNCHANGED logVars

\* HbEvent without the had_error test on failure: every failed cycle is logged.
HbEvent_every_failure(had, ok) ==
  IF ok
  THEN (IF had THEN "HEARTBEAT_RECOVERED" ELSE None)
  ELSE "HEARTBEAT_ERROR"

\* The event heartbeat_worker logs after a cycle, or None: HEARTBEAT_RECOVERED
\* if had_error on success, HEARTBEAT_ERROR if not had_error on failure.
HbEvent(had, ok) ==
  IF ok
  THEN (IF had THEN "HEARTBEAT_RECOVERED" ELSE None)
  ELSE (IF ~had THEN "HEARTBEAT_ERROR" ELSE None)

\* HEARTBEAT.record_success(len(data)); if had_error: log, had_error = False
HbSuccess ==
  /\ \/ /\ pc["hb"] = "hs_lock"
        /\ hbLock = "free"
        /\ hbLock' = "hb"
        /\ pc' = [pc EXCEPT !["hb"] = "hs_body"]
        /\ UNCHANGED <<hb, had_error>>
        /\ UNCHANGED logVars
     \/ /\ pc["hb"] = "hs_body"
        /\ hb' = record_success(hb, RecordLen, ToString(cycles["hb"]))
        /\ hbLock' = "free"
        /\ pc' = [pc EXCEPT !["hb"] = "hs_check"]
        /\ UNCHANGED had_error
        /\ UNCHANGED logVars
     \/ /\ pc["hb"] = "hs_check"
        /\ IF HbEvent(had_error, TRUE) # None
           THEN LogCall("hb", HbEvent(had_error, TRUE), "HEARTBEAT_PATH", "hs_clear")
           ELSE /\ pc' = [pc EXCEPT !["hb"] = "hb_sleep"]
                /\ UNCHANGED logVars
        /\ UNCHANGED <<hb, hbLock, had_error>>
     \/ /\ pc["hb"] = "hs_clear"
        /\ had_error' = FALSE
        /\ pc' = [pc EXCEPT !["hb"] = "hb_sleep"]
        /\ UNCHANGED <<hb, hbLock>>
        /\ UNCHANGED logVars
  /\ UNCHANGED <<hbExc, hbObs, hbFile, hbDir, cycles>>

\* except Exception as e: HEARTBEAT.record_error(e); if not had_error: log,
\* had_error = True
HbFailure ==
  /\ \/ /\ pc["hb"] = "he_lock"
        /\ hbLock = "free"
        /\ hbLock' = "hb"
        /\ pc' = [pc EXCEPT !["hb"] = "he_body"]
        /\ UNCHANGED <<hb, had_error, hbExc>>
        /\ UNCHANGED logVars
     \/ /\ pc["hb"] = "he_body"
        /\ hb' = record_error(hb, hbExc)
        /\ hbLock' = "free"
        /\ hbExc' = None
        /\ pc' = [pc EXCEPT !["hb"] = "he_check"]
        /\ UNCHANGED had_error
        /\ UNCHANGED logVars
     \/ /\ pc["hb"] = "he_check"
        /\ IF HbEvent(had_error, FALSE) # None
           THEN LogCall("hb", HbEvent(had_error, FALSE), "HEARTBEAT_PATH", "he_set")
           ELSE /\ pc' = [pc EXCEPT !["hb"] = "hb_sleep"]
                /\ UNCHANGED logVars
        /\ UNCHANGED <<hb, hbLock, had_error, hbExc>>
     \/ /\ pc["hb"] = "he_set"
        /\ had_error' = TRUE
        /\ pc' = [pc EXCEPT !["hb"] = "hb_sleep"]
        /\ UNCHANGED <<hb, hbLock, hbExc>>
        /\ UNCHANGED logVars
  /\ UNCHANGED <<hbObs, hbFile, hbDir, cycles>>

\* time.sleep(HEARTBEAT_INTERVAL_SECONDS)
HbSleep ==
  /\ pc["hb"] = "hb_sleep"
  /\ pc' = [pc EXCEPT !["hb"] = "hb_cycle"]
  /\ UNCHANGED <<hb, hbLock, had_error, hbExc, hbObs, hbFile, hbDir, cycles>>
  /\ UNCHANGED logVars

\* The environment: the heartbeat file's directory is removed while the loop
\* sleeps.
RemoveDir ==
  /\ budget.rmdir
  /\ pc["hb"] = "hb_sleep"
  /\ hbDir
  /\ hbDir' = FALSE
  /\ UNCHANGED <<budget, pc, cycles, EVENTS_FSYNC, pingVars, logVars, reqVars, escVars>>
  /\ UNCHANGED <<hb, hbLock, had_error, hbExc, hbObs, hbFile>>

heartbeat_worker ==
  /\ \/ HbStartup
     \/ HbWrite
     \/ HbSuccess
     \/ HbFailure
     \/ HbSleep
  /\ UNCHANGED <<budget, EVENTS_FSYNC, pingVars, reqVars, escVars>>


\* ---------------------------------------------------- disk_usage_summary
\* disk_usage_summary without the query of "/": zeros as soon as the query of
\* the path fails.
disk_usage_summary_zeros_at_once(p, pathOk, rootOk) ==
  IF pathOk THEN [path |-> p, total |-> "total", used |-> "used", free |-> "free"]
  ELSE [path |-> p, total |-> "0", used |-> "0", free |-> "0"]

\* shutil.disk_usage(path), then shutil.disk_usage("/"), then zeros.
disk_usage_summary(p, pathOk, rootOk) ==
  IF pathOk THEN [path |-> p, total |-> "total", used |-> "used", free |-> "free"]
  ELSE IF rootOk
       THEN [path |-> <<"/">>, total |-> "total", used |-> "used", free |-> "free"]
       ELSE [path |-> p, total |-> "0", used |-> "0", free |-> "0"]

\* ----------------------------------------------------------- html_escape
\* Strings are sequences of one-character strings.
\* str.replace(old, new) for a one-character old. The string is bound once
\* (str) so that it is evaluated once per call, however deep the nesting.
RECURSIVE replace(_, _, _)
replace(s, old, new) ==
  CHOOSE out \in
    { IF str = <<>> THEN <<>>
      ELSE (IF Head(str) = old THEN new ELSE <<Head(str)>>)
           \o replace(Tail(str), old, new) : str \in {s} } : TRUE

Amp == <<"&", "a", "m", "p", ";">>
Lt == <<"&", "l", "t", ";">>
Gt == <<"&", "g", "t", ";">>
Quot == <<"&", "q", "u", "o", "t", ";">>
Apos == <<"&", "#", "3", "9", ";">>

\* html_escape with the ampersand replaced last: the entities just written
\* are escaped again.
html_escape_amp_last(s) ==
  replace(replace(replace(replace(replace(s, "<", Lt), ">", Gt), "\"", Quot),
                  "'", Apos), "&", Amp)

html_escape(s) ==
  replace(replace(replace(replace(replace(s, "&", Amp), "<", Lt), ">", Gt),
                  "\"", Quot), "'", Apos)

\* --------------------------------------------------------- render_index
\* The page is a sequence of tokens: a piece of the template's markup is one
\* token of several characters, a dynamic string contributes its characters.
format_dt(ts) == <<"Y-m-d H:M:S Z (z)", ts>>

ping_row(t, data) ==
  LET status == IF data.ok THEN "OK" ELSE "FAIL"
      when == IF data.ts # None THEN format_dt(data.ts) ELSE <<"--">>
      latency_s == IF data.latency_ms # None THEN "0.00 ms" ELSE "--"
  IN <<"<tr><td>">> \o html_escape(t) \o <<"</td><td style=color>", status,
       "</td><td>", latency_s, "</td><td>", ToString(data.misses), "</td><td>">>
     \o html_escape(when) \o <<"</td></tr>">>

RECURSIVE ping_rows(_, _, _)
ping_rows(targets, pp, i) ==
  IF i > Len(targets) THEN <<>>
  ELSE ping_row(targets[i],
                IF targets[i] \in DOMAIN pp THEN pp[targets[i]] ELSE InitialRecord)
       \o ping_rows(targets, pp, i + 1)

\* tail_events: the lines of the events file, or the placeholder.
tail_events(file) ==
  IF file = <<>> THEN <<"(no events yet)">>
  ELSE [i \in 1..Len(file) |-> ToString(file[i].id)]

render_index(targets, now_local, host, ips, pp, h, hb_file, du, events_path, events_text) ==
  LET hb_when == IF h.last_write_ts # None THEN format_dt(h.last_write_ts)
                 ELSE <<"--">>
      hb_err_html == IF h.last_error # <<>>
                     THEN <<"<div style=color>Error: ">>
                          \o html_escape(h.last_error) \o <<"</div>">>
                     ELSE <<>>
  IN <<"<!doctype html>...<div class=muted>Updated: ">> \o html_escape(now_local)
     \o <<"</div>...<strong>Hostname:</strong> ">> \o html_escape(host)
     \o <<"<br /><strong>IP:</strong> ">> \o html_escape(ips)
     \o <<"</div>...<tbody>">> \o ping_rows(targets, pp, 1)
     \o <<"</tbody>...Heartbeat file: <code>">> \o html_escape(hb_file)
     \o <<"</code></div><div>Last write: ">> \o html_escape(hb_when)
     \o <<" | Chunk: ", ToString(h.bytes_written), " bytes</div>">>
     \o hb_err_html
     \o <<"<div class=muted>Disk usage (">> \o html_escape(du.path)
     \o <<"): total ", du.total, ", used ", du.used, ", free ", du.free,
          "</div>...Path: <code>">> \o html_escape(events_path)
     \o <<"</code> (last entries)</div><pre>">> \o html_escape(events_text)
     \o <<"</pre>...</html>">>

\* render_index has not queried the disk usage.
NoDisk ==
  [pathOk |-> TRUE, rootOk |-> TRUE,
   out |-> [path |-> <<>>, total |-> "0", used |-> "0", free |-> "0"]]

\* -------------------------------------------------------- Handler.do_GET
Health == <<"/", "h", "e", "a", "l", "t", "h">>
\* The request paths explored.
Paths ==
  { <<"/">>, <<"/", "x">>, Health, Health \o <<"z">>,
    Health \o <<"-", "s", "t", "a", "t", "u", "s">> }

startswith(s, prefix) ==
  /\ Len(s) >= Len(prefix)
  /\ SubSeq(s, 1, Len(prefix)) = prefix

\* json.dumps of the health payload, as tokens.
json_dumps(payload) ==
  <<"{\"ok\": ", IF payload.ok THEN "true" ELSE "false",
    ", \"time\": ", payload.time, ", \"host\": ", payload.host, "}">>

\* Nothing has been sent.
NoResponse == [status |-> 0, ctype |-> None, body |-> <<>>]

\* A health response that reports the probes: ok only if every target is up.
HealthResponse_from_pings ==
  [status |-> IF \A t \in Targets : latest[t].ok THEN 200 ELSE 503,
   ctype |-> "application/json",
   body |-> json_dumps([ok |-> \A t \in Targets : latest[t].ok,
                        time |-> "now", host |-> "hostname"])]

HealthResponse ==
  [status |-> 200, ctype |-> "application/json",
   body |-> json_dumps([ok |-> TRUE, time |-> "now", host |-> "hostname"])]

PageResponse(body) ==
  [status |-> 200, ctype |-> "text/html; charset=utf-8", body |-> body]

\* Whether do_GET answers the path with the health JSON.
IsHealthPath(p) == startswith(p, Health)

\* do_GET up to the first lock of render_index.
do_GET ==
  /\ pc["req"] = "idle"
  /\ served < budget.req
  /\ \E p \in Paths :
       /\ path' = p
       /\ IF IsHealthPath(p)
          THEN /\ resp' = HealthResponse
               /\ pc' = [pc EXCEPT !["req"] = "sent"]
          ELSE /\ resp' = NoResponse
               /\ pc' = [pc EXCEPT !["req"] = "r_pings"]
  /\ UNCHANGED <<pings, hbSnap, disk, served, pingLock, hbLock>>

\* pings = PING_STATE.snapshot()
RenderPings ==
  /\ \/ /\ pc["req"] = "r_pings"
        /\ pingLock = "free"
        /\ pingLock' = "req"
        /\ pc' = [pc EXCEPT !["req"] = "r_pings_body"]
        /\ UNCHANGED pings
     \/ /\ pc["req"] = "r_pings_body"
        /\ pings' = snapshot(latest)
        /\ pingLock' = "free"
        /\ pc' = [pc EXCEPT !["req"] = "r_hb"]
  /\ UNCHANGED <<path, hbSnap, disk, resp, served, hbLock>>

\* hb = HEARTBEAT.snapshot()
RenderHb ==
  /\ \/ /\ pc["req"] = "r_hb"
        /\ hbLock = "free"
        /\ hbLock' = "req"
        /\ pc' = [pc EXCEPT !["req"] = "r_hb_body"]
        /\ UNCHANGED hbSnap
     \/ /\ pc["req"] = "r_hb_body"
        /\ hbSnap' = hb_snapshot(hb)
        /\ hbLock' = "free"
        /\ pc' = [pc EXCEPT !["req"] = "r_disk"]
  /\ UNCHANGED <<path, pings, disk, resp, served, pingLock>>

\* disk = disk_usage_summary(os.getcwd()): each of the two queries succeeds
\* or raises.
RenderDisk ==
  /\ pc["req"] = "r_disk"
  /\ \E pathOk, rootOk \in BOOLEAN :
       disk' = [pathOk |-> pathOk, rootOk |-> rootOk,
                out |-> disk_usage_summary(<<"cwd">>, pathOk, rootOk)]
  /\ pc' = [pc EXCEPT !["req"] = "r_page"]
  /\ UNCHANGED <<path, pings, hbSnap, resp, served, pingLock, hbLock>>

\* A string of the running program as characters, none of them special; None
\* and the empty string are both <<>> (the renderer only tests truthiness).
Str(x) == IF x = None THEN <<>> ELSE <<x>>

\* The rest of render_index, and the response.
RenderPage ==
  /\ pc["req"] = "r_page"
  /\ resp' = PageResponse(render_index(
                  [i \in 1..Len(PING_TARGETS) |-> <<PING_TARGETS[i]>>],
                  format_dt("now"), <<"hostname">>, <<"ips">>,
                  [t \in {<<x>> : x \in Targets} |->
                     deref(latest, pings[t[1]], t[1])],
                  [hbSnap EXCEPT !.last_error = Str(@)],
                  <<"HEARTBEAT_PATH">>,
                  disk.out,
                  <<"EVENTS_LOG_PATH">>, tail_events(evFile)))
  /\ pings' = NoPings
  /\ hbSnap' = NoHb
  /\ disk' = NoDisk
  /\ pc' = [pc EXCEPT !["req"] = "sent"]
  /\ UNCHANGED <<path, served, pingLock, hbLock>>

\* The response is on the wire and the request is over.
Finish ==
  /\ pc["req"] = "sent"
  /\ resp' = NoResponse
  /\ path' = <<>>
  /\ served' = served + 1
  /\ pc' = [pc EXCEPT !["req"] = "idle"]
  /\ UNCHANGED <<pings, hbSnap, disk, pingLock, hbLock>>

Handler ==
  /\ \/ do_GET
     \/ RenderPings
     \/ RenderHb
     \/ RenderDisk
     \/ RenderPage
     \/ Finish
  /\ UNCHANGED <<budget, cycles, EVENTS_FSYNC, escVars, logVars>>
  /\ UNCHANGED <<latest, target, res, prev_ok, obs>>
  /\ UNCHANGED <<hb, had_error, hbExc, hbObs, hbFile, hbDir>>

\* ------------------------------------------------------- specifications
InitProgram ==
  /\ pc = [ping |-> "cycle", hb |-> "start", req |-> "idle"]
  /\ cycles = [ping |-> 0, hb |-> 0]
  /\ latest = [t \in Targets |-> InitialRecord]
  /\ pingLock = "free"
  /\ target = 1
  /\ res = NoResult
  /\ prev_ok = [t \in Targets |-> <<>>]
  /\ obs = [t \in Targets |-> <<>>]
  /\ evLock = "free"
  /\ evFile = <<>>
  /\ stderr = <<>>
  /\ logLine = [th \in Loops |-> NoLine]
  /\ logPos = [th \in Loops |-> 0]
  /\ ret = [th \in Loops |-> None]
  /\ logCalls = <<>>
  /\ faults = 0
  /\ hb = [last_write_ts |-> None, last_error |-> None, bytes_written |-> 0]
  /\ hbLock = "free"
  /\ had_error = FALSE
  /\ hbExc = None
  /\ hbObs = <<>>
  /\ hbFile = 0
  /\ path = <<>>
  /\ pings = NoPings
  /\ hbSnap = NoHb
  /\ disk = NoDisk
  /\ resp = NoResponse
  /\ served = 0

Init ==
  /\ InitProgram
  /\ budget \in Scenarios
  /\ EVENTS_FSYNC \in (IF budget.faults > 0 THEN BOOLEAN ELSE {FALSE})
  /\ hbDir \in (IF budget.hb > 0 THEN BOOLEAN ELSE {TRUE})
  /\ escIn = <<>>
  /\ escOut = [done |-> FALSE, out |-> <<>>]

Next ==
  \/ ping_worker
  \/ heartbeat_worker
  \/ log("ping")
  \/ log("hb")
  \/ Handler
  \/ RemoveDir

Spec == Init /\ [][Next]_vars


\* The loops and the request threads are scheduled: a step that stays
\* possible is eventually taken.
FairSpec ==
  /\ Spec
  /\ WF_vars(ping_worker \/ log("ping"))
  /\ WF_vars(heartbeat_worker \/ log("hb"))
  /\ WF_vars(Handler)

\* ------------------------------------------- html_escape on any string
\* The characters of the strings given to html_escape.
Alphabet == {"&", "<", ">", "\"", "'", "l", "t", ";"}

RECURSIVE StringsOf(_)
StringsOf(n) ==
  IF n = 0 THEN {<<>>}
  ELSE LET shorter == StringsOf(n - 1)
       IN shorter \cup {Append(s, c) : s \in {x \in shorter : Len(x) = n - 1},
                                        c \in Alphabet}

\* No loop runs; a string is drawn for the page's dynamic values.
EscInit ==
  /\ InitProgram
  /\ budget = [ping |-> 0, hb |-> 0, req |-> 0, faults |-> 0, rmdir |-> FALSE]
  /\ EVENTS_FSYNC = FALSE
  /\ hbDir = TRUE
  /\ escIn \in StringsOf(MaxLen)
  /\ escOut = [done |-> FALSE, out |-> <<>>]

\* html_escape(s)
EscApply ==
  /\ ~escOut.done
  /\ escOut' = [done |-> TRUE, out |-> html_escape(escIn)]
  /\ UNCHANGED <<budget, pc, cycles, EVENTS_FSYNC, pingVars, logVars, hbVars,
                 reqVars, escIn>>

\* render_index() when the target, the hostname, the addresses, the paths,
\* the heartbeat error and the tail of the event log are that string.
EscRender ==
  /\ pc["req"] = "idle"
  /\ \E pathOk, rootOk \in BOOLEAN :
       resp' = PageResponse(render_index(
                  <<escIn>>, escIn, escIn, escIn,
                  [t \in {escIn} |-> InitialRecord],
                  [hb_snapshot(hb) EXCEPT !.last_error = escIn],
                  escIn, disk_usage_summary(escIn, pathOk, rootOk),
                  escIn, escIn))
  /\ pc' = [pc EXCEPT !["req"] = "sent"]
  /\ UNCHANGED <<budget, cycles, EVENTS_FSYNC, pingVars, logVars, hbVars,
                 path, pings, hbSnap, disk, served, escVars>>

EscNext ==
  \/ EscApply
  \/ EscRender

SpecEsc == EscInit /\ [][EscNext]_vars


\* ================================================================ claims
Fails(o) == Cardinality({i \in 1..Len(o) : ~o[i]})
Front(o) == SubSeq(o, 1, Len(o) - 1)
AtTarget(t) == PING_TARGETS[target] = t

\* The observations of t that increment has counted.
Counted(t) ==
  IF AtTarget(t) /\ pc["ping"] \in {"inc", "inc_body"} THEN Front(obs[t]) ELSE obs[t]

\* C1: for every target, checks is the number of probes counted so far and
\* misses the number of failed ones among them, so misses <= checks in the
\* store and in every snapshot; between cycles checks is the number of cycles;
\* update leaves both counters as they were.
C1_Counters ==
  /\ \A t \in Targets :
       /\ latest[t].checks = Len(Counted(t))
       /\ latest[t].misses = Fails(Counted(t))
       /\ latest[t].misses <= latest[t].checks
  /\ pc["ping"] \in {"sleep", "cycle"} =>
       \A t \in Targets : latest[t].checks = cycles["ping"]
  /\ pc["req"] \in {"r_hb", "r_hb_body", "r_disk", "r_page"} =>
       \A t \in Targets : pings[t].rec.misses <= pings[t].rec.checks

\* Three cycles are over and a target has failed twice and then answered.
C1_Witness ==
  /\ pc["ping"] = "sleep"
  /\ cycles["ping"] = 3
  /\ \E t \in Targets :
       /\ obs[t] = <<FALSE, FALSE, TRUE>>
       /\ latest[t].checks = 3
       /\ latest[t].misses = 2

\* The observations of t whose event, if any, has been handed to the logger.
Compared(t) ==
  IF AtTarget(t) /\ pc["ping"] \in {"inc", "inc_body", "upd", "upd_body", "compare"}
  THEN Front(obs[t]) ELSE obs[t]

\* The observations of t that prev_ok has taken in.
Remembered(t) ==
  IF AtTarget(t) /\ pc["ping"] \notin {"probe", "sleep", "cycle"}
  THEN Front(obs[t]) ELSE obs[t]

\* One event for the first observation and one for each change of ok.
RECURSIVE Transitions(_)
Transitions(o) ==
  IF o = <<>> THEN <<>>
  ELSE LET n == Len(o)
           kind == IF o[n] THEN "PING_UP" ELSE "PING_DOWN"
       IN IF n = 1 \/ o[n] # o[n - 1]
          THEN Append(Transitions(Front(o)), kind)
          ELSE Transitions(Front(o))

EventsOf(th, who) ==
  LET mine == SelectSeq(logCalls, LAMBDA c : c.by = th /\ c.who = who)
  IN [i \in 1..Len(mine) |-> mine[i].event]

\* C2: the events the ping loop has logged for a target are exactly one for
\* its first observation and one for each later observation that differs from
\* the one before it; prev_ok holds the last observation and is None only
\* before the first.
C2_PingTransitions ==
  \A t \in Targets :
    /\ EventsOf("ping", t) = Transitions(Compared(t))
    /\ prev_ok[t] = (IF Remembered(t) = <<>> THEN <<>>
                     ELSE <<Remembered(t)[Len(Remembered(t))]>>)

\* A target failed twice and then answered: PING_DOWN, then PING_UP.
C2_Witness ==
  /\ pc["ping"] = "sleep"
  /\ \E t \in Targets :
       /\ obs[t] = <<FALSE, FALSE, TRUE>>
       /\ EventsOf("ping", t) = <<"PING_DOWN", "PING_UP">>

\* The heartbeat cycles whose event, if any, has been handed to the logger.
HbCompared ==
  IF pc["hb"] \in {"hs_lock", "hs_body", "hs_check", "he_lock", "he_body", "he_check"}
  THEN Front(hbObs) ELSE hbObs

\* HEARTBEAT_ERROR for the first failure of a streak, HEARTBEAT_RECOVERED for
\* the first success after one.
RECURSIVE Streaks(_)
Streaks(o) ==
  IF o = <<>> THEN <<>>
  ELSE LET n == Len(o)
           before == IF n = 1 THEN TRUE ELSE o[n - 1]
       IN IF o[n] = before THEN Streaks(Front(o))
          ELSE Append(Streaks(Front(o)),
                      IF o[n] THEN "HEARTBEAT_RECOVERED" ELSE "HEARTBEAT_ERROR")

\* C3: the events the heartbeat loop has logged are HEARTBEAT_ERROR for the
\* first failed cycle of each streak of failures and HEARTBEAT_RECOVERED for
\* the first successful cycle after one, nothing else; they alternate, starting
\* with HEARTBEAT_ERROR.
C3_HeartbeatStreaks ==
  LET ev == EventsOf("hb", "HEARTBEAT_PATH")
  IN /\ ev = Streaks(HbCompared)
     /\ \A i \in 1..Len(ev) :
          ev[i] = (IF i % 2 = 1 THEN "HEARTBEAT_ERROR" ELSE "HEARTBEAT_RECOVERED")

\* Three failed cycles and a success: one HEARTBEAT_ERROR, one HEARTBEAT_RECOVERED.
C3_Witness ==
  /\ pc["hb"] = "hb_sleep"
  /\ hbObs = <<FALSE, FALSE, FALSE, TRUE>>
  /\ EventsOf("hb", "HEARTBEAT_PATH") = <<"HEARTBEAT_ERROR", "HEARTBEAT_RECOVERED">>

\* C4: a request for /health is answered at once, without a snapshot of either
\* store, with status 200 and a JSON body whose ok is true, whatever the state
\* of the stores and of the event log.
C4_HealthAlwaysOk ==
  path = Health =>
    /\ pc["req"] = "sent"
    /\ resp.status = 200
    /\ resp.ctype = "application/json"
    /\ resp.body = json_dumps([ok |-> TRUE, time |-> resp.body[4],
                                host |-> resp.body[6]])

\* /health is answered while the heartbeat is in error and a write of the
\* event log has failed.
C4_Witness ==
  /\ path = Health
  /\ pc["req"] = "sent"
  /\ resp.status = 200
  /\ hb.last_error # None
  /\ faults > 0

\* /health is answered while every target is down.
C4_WitnessPings ==
  /\ path = Health
  /\ pc["req"] = "sent"
  /\ \A t \in Targets : latest[t].checks > 0 /\ ~latest[t].ok


\* C5: every request whose path is not exactly /health is answered with the
\* HTML status page.
C5_OtherPathsGetPage ==
  (pc["req"] = "sent" /\ path # Health) =>
    /\ resp.status = 200
    /\ resp.ctype = "text/html; charset=utf-8"

\* The positions of a thread inside the with block of log().
LogInside == {"log_open", "log_write", "log_fsync", "log_fallback", "log_release"}

\* C6: no call of log() raises to the loop that made it, whatever fails in it,
\* and the logger's lock is held by a thread exactly while it is inside the
\* with block: it is free again once log() has returned.
C6_LogNeverRaises ==
  /\ evLock \in {"free"} \cup Loops
  /\ \A th \in Loops :
       /\ pc[th] # "raised"
       /\ evLock = th <=> pc[th] \in LogInside

\* The events file could not be opened for either event of a ping cycle; both
\* calls returned, the lock is free and the cycle is over.
C6_Witness ==
  /\ faults = 2
  /\ evFile = <<>>
  /\ Len(stderr) = 2
  /\ Len(logCalls) = 2
  /\ pc["ping"] = "sleep"
  /\ evLock = "free"

InFile(id) == \A k \in 1..NFrag : \E i \in 1..Len(evFile) : evFile[i] = [id |-> id, part |-> k]
InStderr(id) == \E i \in 1..Len(stderr) : stderr[i] = id
\* The call that formatted line id has returned.
Returned(id) ==
  ~ \E th \in Loops : pc[th] \in LogInside \cup {"log_lock"} /\ logLine[th].id = id
Lost == {id \in 1..Len(logCalls) : Returned(id) /\ ~InFile(id) /\ ~InStderr(id)}

\* C7 as stated: the line of every call that has returned is in the events
\* file or on stderr.
C7_NoEventLost == Lost = {}

\* C7 as amended: a line is in neither the events file nor stderr only if both
\* the write to the file and the write to stderr failed in its call (two
\* failures for each such line); a line is missing from the file only if a
\* failure occurred.
C7_LostOnlyIfBothFail ==
  /\ 2 * Cardinality(Lost) <= faults
  /\ Cardinality({id \in 1..Len(logCalls) : Returned(id) /\ ~InFile(id)}) <= faults

\* A call whose write to the file failed has returned and its line is on stderr.
C7_Witness ==
  \E id \in 1..Len(logCalls) : Returned(id) /\ ~InFile(id) /\ InStderr(id)

\* C9: at most one thread is inside the with block of log(), and the events
\* file is a sequence of whole lines (the last one possibly still being
\* written), each written by one call: piece k of a line follows pieces 1..k-1
\* of the same line.
C9_WholeLines ==
  /\ Cardinality({th \in Loops : pc[th] \in LogInside}) <= 1
  /\ \A i \in 1..Len(evFile) :
       LET k == ((i - 1) % NFrag) + 1
       IN /\ evFile[i].part = k
          /\ evFile[i].id = evFile[i - k + 1].id

\* The heartbeat loop waits for the lock while the ping loop is in the middle
\* of its line.
C9_Witness ==
  /\ pc["hb"] = "log_lock"
  /\ pc["ping"] = "log_write"
  /\ logPos["ping"] = 1
  /\ evLock = "ping"

Special == {"<", ">", "\"", "'"}
Entities == {Amp, Lt, Gt, Quot, Apos}
EntityChar(e) ==
  CASE e = Amp -> "&" [] e = Lt -> "<" [] e = Gt -> ">" [] e = Quot -> "\""
    [] e = Apos -> "'"

NoRaw(s) == \A i \in 1..Len(s) : s[i] \notin Special
AmpsStartEntities(s) ==
  \A i \in 1..Len(s) :
    s[i] = "&" => \E e \in Entities : /\ i + Len(e) - 1 <= Len(s)
                                      /\ SubSeq(s, i, i + Len(e) - 1) = e

\* One pass of entity decoding.
RECURSIVE Unescape(_)
Unescape(s) ==
  IF s = <<>> THEN <<>>
  ELSE IF \E e \in Entities : startswith(s, e)
       THEN LET e == CHOOSE x \in Entities : startswith(s, x)
            IN <<EntityChar(e)>> \o Unescape(SubSeq(s, Len(e) + 1, Len(s)))
       ELSE <<Head(s)>> \o Unescape(Tail(s))

\* C8: html_escape's result holds no <, >, " or ' and each of its & starts one
\* of the five entities; decoding the entities once gives the input back (no
\* double escaping); the rendered page holds no such raw character either,
\* when every dynamic string of it is that input.
C8_EscapeSafe ==
  /\ escOut.done =>
       /\ NoRaw(escOut.out)
       /\ AmpsStartEntities(escOut.out)
       /\ Unescape(escOut.out) = escIn
  /\ pc["req"] = "sent" =>
       /\ NoRaw(resp.body)
       /\ AmpsStartEntities(resp.body)

\* The page was rendered for a target that is a tag.
C8_Witness ==
  /\ escIn = <<"<", "t", ">">>
  /\ escOut.done
  /\ escOut.out = <<"&", "l", "t", ";", "t", "&", "g", "t", ";">>
  /\ pc["req"] = "sent"

\* ---------------------------------------------------------------- C11
\* The request thread holds the snapshot of the ping store.
HoldsPings == pc["req"] \in {"r_hb", "r_hb_body", "r_disk", "r_page"}
\* The request thread holds the snapshot of the heartbeat store.
HoldsHb == pc["req"] \in {"r_disk", "r_page"}
\* What the renderer reads in the ping snapshot it holds.
Seen == [t \in DOMAIN pings |-> deref(latest, pings[t], t)]

C12_LatencyOnlyIfOk ==
  /\ \A t \in Targets : latest[t].latency_ms # None => latest[t].ok
  /\ res.latency_ms # None => res.ok
  /\ \A t \in DOMAIN pings : Seen[t].latency_ms # None => Seen[t].ok

\* A target answered in one cycle and failed in the next: its record lost the
\* latency with the update of the failed probe.
C12_Witness ==
  \E t \in Targets :
    /\ obs[t] = <<TRUE, FALSE>>
    /\ AtTarget(t)
    /\ pc["ping"] = "compare"
    /\ ~latest[t].ok
    /\ latest[t].latency_ms = None
    /\ latest[t].ts = "2"

\* ---------------------------------------------------------------- C13
\* The timestamp of a record whose latest update was made in cycle n (None
\* when no update has been made).
StampOf(n) == IF n = 0 THEN None ELSE ToString(n)
\* The counters of r belong to the cycle of its timestamp or to the next one.
OneAhead(r) == r.ts = StampOf(r.checks) \/ (r.checks > 0 /\ r.ts = StampOf(r.checks - 1))

\* C13: increment comes before update and each takes the lock on its own: the
\* lock is free between the two, and the checks of a record, in the store and
\* in every snapshot, equals the number of updates applied to it (the cycle of
\* its timestamp) or exceeds it by one.
C13_IncrementBeforeUpdate ==
  /\ pc["ping"] \in {"inc", "upd"} => pingLock # "ping"
  /\ \A t \in Targets : OneAhead(latest[t])
  /\ \A t \in DOMAIN pings : OneAhead(Seen[t])

\* A snapshot taken between increment and update of the first cycle: the probe
\* is counted and the record has no timestamp yet.
C13_Witness ==
  /\ pc["req"] = "r_page"
  /\ \E t \in Targets :
       /\ Seen[t].checks = 1
       /\ Seen[t].ts = None

\* ---------------------------------------------------------------- C14
\* Where each thread is inside a with block of a store lock.
InPingLock == [ping |-> {"inc_body", "upd_body"}, hb |-> {}, req |-> {"r_pings_body"}]
InHbLock ==
  [ping |-> {}, hb |-> {"st_body", "hs_body", "he_body"}, req |-> {"r_hb_body"}]
\* Where a thread runs a probe, writes or reads a file, queries the disk usage,
\* is inside EVENTS.log or sleeps.
DoingIO ==
  [ping |-> {"probe", "sleep", "log_lock"} \cup LogInside,
   hb |-> {"start", "hb_cycle", "hb_sleep", "log_lock"} \cup LogInside,
   req |-> {"r_disk", "r_page", "sent"}]

\* C14: a store lock is held by a thread exactly while that thread is inside
\* the store operation that took it, and never where the thread probes, writes
\* a file, queries the disk usage, logs an event or sleeps; so whoever waits
\* for a store lock waits for a thread that is inside a store operation.
C14_LocksNotHeldOverIO ==
  /\ pingLock \in {"free"} \cup Threads
  /\ hbLock \in {"free"} \cup Threads
  /\ \A th \in Threads :
       /\ pingLock = th <=> pc[th] \in InPingLock[th]
       /\ hbLock = th <=> pc[th] \in InHbLock[th]
       /\ pc[th] \in DoingIO[th] => pingLock # th /\ hbLock # th

\* The request thread copies the ping store while the ping loop is in the
\* middle of writing an event line.
C14_Witness ==
  /\ pc["req"] = "r_pings_body"
  /\ pingLock = "req"
  /\ pc["ping"] = "log_write"
  /\ logPos["ping"] = 1

\* ---------------------------------------------------------------- C15
\* The heartbeat loop starts the write of a cycle.
HbWriteStep == cycles'["hb"] = cycles["hb"] + 1

\* C15: every cycle ensures the directory before its write. The loop calls
\* makedirs nowhere but before its first cycle, so a cycle after the first
\* would have to find the directory in place when it writes.
C15_DirEnsuredEachCycle ==
  [][(HbWriteStep /\ cycles["hb"] > 0) => hbDir]_vars

\* ---------------------------------------------------------------- C16
\* The zeroed placeholder for path p.
Zeroed(p) == [path |-> p, total |-> "0", used |-> "0", free |-> "0"]
\* render_index has the result of disk_usage_summary in hand.
HasDisk == pc["req"] = "r_page"

\* C16 as stated: when the query for the requested path fails, the result is
\* the zeroed placeholder for that path.
C16_ZeroedWhenQueryFails ==
  (HasDisk /\ ~disk.pathOk) => disk.out = Zeroed(<<"cwd">>)

\* C16 as amended: when the query for the requested path fails, the result is
\* the usage of "/" under the path "/" if that second query succeeds, and the
\* zeroed placeholder for the requested path only if it fails too; nothing is
\* raised, and the page is rendered with status 200.
C16_RootThenZeroed ==
  /\ (HasDisk /\ ~disk.pathOk /\ disk.rootOk) =>
       /\ disk.out.path = <<"/">>
       /\ disk.out # Zeroed(<<"/">>)
  /\ (HasDisk /\ ~disk.pathOk /\ ~disk.rootOk) => disk.out = Zeroed(<<"cwd">>)
  /\ (HasDisk /\ disk.pathOk) =>
       /\ disk.out.path = <<"cwd">>
       /\ disk.out # Zeroed(<<"cwd">>)
  /\ (pc["req"] = "sent" /\ ~IsHealthPath(path)) =>
       /\ resp.status = 200
       /\ resp.ctype = "text/html; charset=utf-8"

\* The query for the working directory failed, the query for "/" did not.
C16_Witness ==
  /\ HasDisk
  /\ ~disk.pathOk
  /\ disk.rootOk
  /\ disk.out.path = <<"/">>
  /\ disk.out.total = "total"

\* ---------------------------------------------------------------- C17
\* The heartbeat cycles whose outcome has been recorded in the store.
HbRecorded ==
  IF pc["hb"] \in {"hs_lock", "hs_body", "he_lock", "he_body"}
  THEN Front(hbObs) ELSE hbObs
\* The last successful cycle among o (0 when there is none).
LastSuccess(o) ==
  IF \E i \in 1..Len(o) : o[i]
  THEN CHOOSE i \in 1..Len(o) : o[i] /\ \A j \in (i + 1)..Len(o) : ~o[j]
  ELSE 0

\* C17: last_write_ts is the time of the last successful cycle recorded and
\* bytes_written the size of its one record (0 and None before any success),
\* whatever errors were recorded since; once a cycle has been recorded,
\* last_error is absent exactly when the latest recorded cycle succeeded.
C17_HeartbeatRecord ==
  /\ hb.last_write_ts = StampOf(LastSuccess(HbRecorded))
  /\ hb.bytes_written = (IF LastSuccess(HbRecorded) = 0 THEN 0 ELSE RecordLen)
  /\ HbRecorded # <<>> =>
       (hb.last_error = None <=> HbRecorded[Len(HbRecorded)])

\* Two cycles succeeded and the third failed: the error is recorded beside the
\* time and the size of the second cycle's write.
C17_Witness ==
  /\ hbObs = <<TRUE, TRUE, FALSE>>
  /\ pc["hb"] = "hb_sleep"
  /\ hb = [last_write_ts |-> "2", last_error |-> "error", bytes_written |-> RecordLen]

\* ---------------------------------------------------------------- C18
\* Loop th is waiting for the logger's lock while the other loop holds it.
WaitsForOther(th) ==
  /\ pc[th] = "log_lock"
  /\ evLock \in Loops \ {th}

\* C18 as stated: the loops share no lock, store or file, so neither ever
\* waits for the other.
C18_NoSharedResource == \A th \in Loops : ~WaitsForOther(th)

\* C18 as amended: the loops share no state store and no store lock; what they
\* share is the event logger, its lock and its file. A loop waits for the other
\* only at the lock of EVENTS.log, and then the other is inside the with block
\* of its own call of log.
C18_OnlyLoggerShared ==
  /\ pingLock # "hb"
  /\ hbLock # "ping"
  /\ \A th \in Loops :
       (pc[th] = "log_lock" /\ evLock # "free") =>
         /\ evLock \in Loops \ {th}
         /\ pc[evLock] \in LogInside

\* The ping loop waits at the logger's lock while the heartbeat loop, which
\* holds it, is about to open the events file for HEARTBEAT_ERROR.
C18_Witness ==
  /\ WaitsForOther("ping")
  /\ pc["hb"] = "log_open"
  /\ logLine["hb"].event = "HEARTBEAT_ERROR"

\* ---------------------------------------------------------------- C19
\* The timestamp of a line is taken when its call of log begins, so the ids
\* of the lines, given in call order, are in the order of their timestamps.
\* C19: the lines of the events file are in the order of their timestamps.
C19_FileInTimestampOrder ==
  \A i, j \in 1..Len(evFile) : i < j => evFile[i].id <= evFile[j].id

\* ---------------------------------------------------------------- C20
\* C20: the heartbeat file holds one record for each cycle recorded as a
\* success and none for a cycle recorded as an error.
C20_OneRecordPerSuccess ==
  hbFile = Cardinality({i \in 1..Len(hbObs) : hbObs[i]})

====
